---- MODULE Spec2Model ----
(***************************************************************************)
(* A model of polybar-now-playing (src/main.rs): the poll loop of          *)
(* PolybarNowPlaying::run, the registry refresh, the per-tick formatting   *)
(* of prefix / body / suffix, the scroll step and make_visual_length.      *)
(*                                                                         *)
(* A Rust String is a sequence of characters; a character is a one-letter  *)
(* string for ASCII and a code-point token ("U+6B53") otherwise.  Every    *)
(* character has a display width (unicode-width) and a UTF-8 byte length,  *)
(* so that width arithmetic and byte slicing are computed, not assumed.    *)
(*                                                                         *)
(* main.rs reads and writes self.display_text (lines 172, 174, 208) but    *)
(* the struct (lines 37-44) and its literal in new() (lines 50-57) do not  *)
(* declare it.  The model gives the object that field, a String that       *)
(* starts empty like the other two String fields of the literal.           *)
(***************************************************************************)
EXTENDS Integers, Sequences, FiniteSets, TLC

VARIABLES
    players,         \* Vec<PlayerInfo>: the names, in list order
    current_player,  \* index into players, 0-based as in the source
    display_prefix,  \* String
    display_suffix,  \* String
    status_paused,   \* bool
    display_text,    \* String: the buffer scroll() mutates and the body printed
    pc,              \* position of run(): the next call, or how it returned
    fetched,         \* locals of the latest update_message: <<>> or <<[player_name, status, metadata]>>
    stdout,          \* what the latest print! wrote
    call             \* a direct call of a pure helper: its arguments and result

vars == <<players, current_player, display_prefix, display_suffix,
          status_paused, display_text, pc, fetched, stdout, call>>

-----------------------------------------------------------------------------
(* Characters *)

CJK_KAN == "U+6B53"      \* a wide character: 2 columns, 3 bytes
CJK_KI == "U+559C"       \* a wide character: 2 columns, 3 bytes
E_ACUTE == "U+00E9"      \* 1 column, 2 bytes
COMBINING == "U+0301"    \* a combining mark: 0 columns, 2 bytes

ICON_PREVIOUS == "U+F048"
ICON_PLAY == "U+F04B"
ICON_PAUSE == "U+F04C"
ICON_NEXT == "U+F051"
ICON_SPOTIFY == "U+F1BC"
ICON_FIREFOX == "U+F269"
ICON_DEFAULT == "U+F001"

WideChars == {CJK_KAN, CJK_KI}
ZeroWidthChars == {COMBINING}
TwoByteChars == {E_ACUTE, COMBINING}
ThreeByteChars == WideChars \cup {ICON_PREVIOUS, ICON_PLAY, ICON_PAUSE, ICON_NEXT,
                                  ICON_SPOTIFY, ICON_FIREFOX, ICON_DEFAULT}

\* UnicodeWidthChar::width(ch), with None and Some(0) both 0
CharWidth(ch) == IF ch \in WideChars THEN 2 ELSE IF ch \in ZeroWidthChars THEN 0 ELSE 1

\* char::len_utf8
ByteLen(ch) == IF ch \in ThreeByteChars THEN 3 ELSE IF ch \in TwoByteChars THEN 2 ELSE 1

UpperChars == <<"A", "B", "C", "D", "E", "F", "G", "H", "I", "J", "K", "L", "M", "N", "O", "P", "Q", "R", "S", "T", "U", "V", "W", "X", "Y", "Z">>
LowerChars == <<"a", "b", "c", "d", "e", "f", "g", "h", "i", "j", "k", "l", "m", "n", "o", "p", "q", "r", "s", "t", "u", "v", "w", "x", "y", "z">>

\* char::to_lowercase on the characters of the model
LowerChar(ch) ==
    IF \E i \in DOMAIN UpperChars : UpperChars[i] = ch
    THEN LowerChars[CHOOSE i \in DOMAIN UpperChars : UpperChars[i] = ch]
    ELSE ch

\* str::to_lowercase
to_lowercase(s) == [i \in DOMAIN s |-> LowerChar(s[i])]

\* str::contains(pattern)
contains(s, pat) ==
    \E i \in 0..(Len(s) - Len(pat)) : SubSeq(s, i + 1, i + Len(pat)) = pat

\* str::starts_with(pattern)
starts_with(s, pat) == Len(s) >= Len(pat) /\ SubSeq(s, 1, Len(pat)) = pat

\* str::is_empty
is_empty(s) == Len(s) = 0

\* " ".repeat(n)
repeat_space(n) == [i \in 1..n |-> " "]

\* field.split(":").last().unwrap(): what follows the last ':' (all of it when there is none)
split_last(s, sep) ==
    LET at == {i \in DOMAIN s : s[i] = sep}
    IN  IF at = {} THEN s
        ELSE LET last == CHOOSE i \in at : \A j \in at : j <= i
             IN  SubSeq(s, last + 1, Len(s))

RECURSIVE width(_)
\* UnicodeWidthStr::width: the sum of the characters' widths
width(s) == IF s = <<>> THEN 0 ELSE CharWidth(Head(s)) + width(Tail(s))

-----------------------------------------------------------------------------
(* Constants of main.rs *)

MESSAGE_DISPLAY_LEN == 20
FONT_INDEX == 1
CONTROL_CHARS == <<ICON_PREVIOUS, ICON_PLAY, ICON_PAUSE, ICON_NEXT>>
DISPLAY_PLAYER_PREFIX ==
    << <<<<"s", "p", "o", "t", "i", "f", "y">>, <<ICON_SPOTIFY>> >>,
       <<<<"f", "i", "r", "e", "f", "o", "x">>, <<ICON_FIREFOX>> >>,
       <<<<"d", "e", "f", "a", "u", "l", "t">>, <<ICON_DEFAULT>> >> >>
XESAM_TITLE == <<"x", "e", "s", "a", "m", ":", "t", "i", "t", "l", "e">>
XESAM_ARTIST == <<"x", "e", "s", "a", "m", ":", "a", "r", "t", "i", "s", "t">>
METADATA_FIELDS == <<XESAM_TITLE, XESAM_ARTIST>>
METADATA_SEPARATOR == "-"
HIDE_OUTPUT == FALSE
MPRIS_NAMESPACE == <<"o", "r", "g", ".", "m", "p", "r", "i", "s", ".", "M", "e", "d", "i", "a", "P", "l", "a", "y", "e", "r", "2", ".">>

\* format!("{}", FONT_INDEX) for the one-digit values
DecimalDigits == <<"0", "1", "2", "3", "4", "5", "6", "7", "8", "9">>
format_u32(n) == <<DecimalDigits[n + 1]>>

\* format!(" {} ", METADATA_SEPARATOR)
separator_string == <<" ", METADATA_SEPARATOR, " ">>

-----------------------------------------------------------------------------
(* make_visual_length *)

RECURSIVE accumulate(_, _, _, _)
\* the for loop of make_visual_length (lines 187-195): [visual_length, altered_text] at its end
accumulate(text, visual_desired_length, visual_length, altered_text) ==
    IF text = <<>> THEN [visual_length |-> visual_length, altered_text |-> altered_text]
    ELSE LET ch == Head(text)
             w == IF CharWidth(ch) = 2 THEN 2 ELSE 1
         IN  IF visual_length + w <= visual_desired_length
             THEN accumulate(Tail(text), visual_desired_length,
                             visual_length + w, Append(altered_text, ch))
             ELSE [visual_length |-> visual_length, altered_text |-> altered_text]

\* String::pop: drops the last character, nothing on an empty string
pop(s) == IF s = <<>> THEN s ELSE SubSeq(s, 1, Len(s) - 1)

\* a mutant of make_visual_length: the padding branch (lines 200-202) is missing
make_visual_length_nopad(text, visual_desired_length) ==
    LET r == accumulate(text, visual_desired_length, 0, <<>>)
    IN  IF r.visual_length = visual_desired_length + 1
        THEN Append(pop(r.altered_text), " ")
        ELSE r.altered_text

\* a mutant of make_visual_length: the padding is one space too long
make_visual_length_pad_extra(text, visual_desired_length) ==
    LET r == accumulate(text, visual_desired_length, 0, <<>>)
    IN  IF r.visual_length = visual_desired_length + 1
        THEN Append(pop(r.altered_text), " ")
        ELSE IF r.visual_length < visual_desired_length
        THEN r.altered_text \o repeat_space(visual_desired_length - r.visual_length + 1)
        ELSE r.altered_text

\* a mutant of make_visual_length: the test of line 197 is on one column short
\* of the target, so the last accepted character is replaced by a space
make_visual_length_replace_last(text, visual_desired_length) ==
    LET r == accumulate(text, visual_desired_length, 0, <<>>)
    IN  IF r.visual_length + 1 = visual_desired_length
        THEN Append(pop(r.altered_text), " ")
        ELSE IF r.visual_length < visual_desired_length
        THEN r.altered_text \o repeat_space(visual_desired_length - r.visual_length)
        ELSE r.altered_text

make_visual_length(text, visual_desired_length) ==
    LET r == accumulate(text, visual_desired_length, 0, <<>>)
    IN  IF r.visual_length = visual_desired_length + 1
        THEN Append(pop(r.altered_text), " ")
        ELSE IF r.visual_length < visual_desired_length
        THEN r.altered_text \o repeat_space(visual_desired_length - r.visual_length)
        ELSE r.altered_text

\* visual_length(&self, text)
visual_length(text) == width(text)

-----------------------------------------------------------------------------
(* The object and its methods.  self is the record of the fields. *)

Self ==
    [players |-> players, current_player |-> current_player,
     display_prefix |-> display_prefix, display_suffix |-> display_suffix,
     status_paused |-> status_paused, display_text |-> display_text]

\* get_players: the names of the bus that start with the MPRIS namespace, in bus order
get_players(names) == SelectSeq(names, LAMBDA name : starts_with(name, MPRIS_NAMESPACE))

\* a mutant of update_players: an out-of-range index is reset to 1, not 0
update_players_reset_one(self, names) ==
    LET ps == get_players(names)
    IN  [self EXCEPT !.players = ps,
                     !.current_player = IF self.current_player >= Len(ps) THEN 1 ELSE @]

\* update_players, when list_names succeeded with names
update_players(self, names) ==
    LET ps == get_players(names)
    IN  [self EXCEPT !.players = ps,
                     !.current_player = IF self.current_player >= Len(ps) THEN 0 ELSE @]

\* format!("%%{{A:playerctl {} <command> :}}{}%%{{A}}", player_option, icon)
button(player_option, command, icon) ==
    <<"%", "%", "{", "A", ":", "p", "l", "a", "y", "e", "r", "c", "t", "l", " ">> \o player_option \o <<" ">> \o command \o <<" ", ":", "}">> \o <<icon>> \o <<"%", "%", "{", "A", "}">>

\* the for loop over DISPLAY_PLAYER_PREFIX (lines 114-119): the prefix it leaves
prefix_after_loop(display_prefix_in, player_name) ==
    LET lowered == to_lowercase(player_name)
        hits == {i \in DOMAIN DISPLAY_PLAYER_PREFIX : contains(lowered, DISPLAY_PLAYER_PREFIX[i][1])}
    IN  IF hits = {} THEN display_prefix_in
        ELSE DISPLAY_PLAYER_PREFIX[CHOOSE i \in hits : \A j \in hits : i <= j][2]

\* a mutant of update_prefix_suffix: the else branch does not set status_paused (line 109)
update_prefix_suffix_sticky(self, player_name, status) ==
    LET player_option == IF is_empty(player_name) THEN <<>> ELSE <<"-", "p", " ">> \o player_name
        prev_button == button(player_option, <<"p", "r", "e", "v", "i", "o", "u", "s">>, CONTROL_CHARS[1])
        play_button == button(player_option, <<"p", "l", "a", "y">>, CONTROL_CHARS[2])
        pause_button == button(player_option, <<"p", "a", "u", "s", "e">>, CONTROL_CHARS[3])
        next_button == button(player_option, <<"n", "e", "x", "t">>, CONTROL_CHARS[4])
        suffix == <<"|", " ">> \o prev_button
                  \o (IF status = "Playing" THEN <<" ">> \o pause_button ELSE <<" ">> \o play_button)
                  \o <<" ">> \o next_button
        looped == prefix_after_loop(self.display_prefix, player_name)
    IN  [self EXCEPT !.status_paused = IF status = "Playing" THEN FALSE ELSE @,
                     !.display_suffix = suffix,
                     !.display_prefix =
                         IF is_empty(looped)
                         THEN DISPLAY_PLAYER_PREFIX[Len(DISPLAY_PLAYER_PREFIX)][2]
                         ELSE looped]

\* a mutant of update_prefix_suffix: the status is compared without regard to case
update_prefix_suffix_any_case(self, player_name, status) ==
    LET player_option == IF is_empty(player_name) THEN <<>> ELSE <<"-", "p", " ">> \o player_name
        prev_button == button(player_option, <<"p", "r", "e", "v", "i", "o", "u", "s">>, CONTROL_CHARS[1])
        play_button == button(player_option, <<"p", "l", "a", "y">>, CONTROL_CHARS[2])
        pause_button == button(player_option, <<"p", "a", "u", "s", "e">>, CONTROL_CHARS[3])
        next_button == button(player_option, <<"n", "e", "x", "t">>, CONTROL_CHARS[4])
        suffix == <<"|", " ">> \o prev_button
                  \o (IF status \in {"Playing", "playing"} THEN <<" ">> \o pause_button ELSE <<" ">> \o play_button)
                  \o <<" ">> \o next_button
        looped == prefix_after_loop(self.display_prefix, player_name)
    IN  [self EXCEPT !.status_paused = (status \notin {"Playing", "playing"}),
                     !.display_suffix = suffix,
                     !.display_prefix =
                         IF is_empty(looped)
                         THEN DISPLAY_PLAYER_PREFIX[Len(DISPLAY_PLAYER_PREFIX)][2]
                         ELSE looped]

update_prefix_suffix(self, player_name, status) ==
    LET player_option == IF is_empty(player_name) THEN <<>> ELSE <<"-", "p", " ">> \o player_name
        prev_button == button(player_option, <<"p", "r", "e", "v", "i", "o", "u", "s">>, CONTROL_CHARS[1])
        play_button == button(player_option, <<"p", "l", "a", "y">>, CONTROL_CHARS[2])
        pause_button == button(player_option, <<"p", "a", "u", "s", "e">>, CONTROL_CHARS[3])
        next_button == button(player_option, <<"n", "e", "x", "t">>, CONTROL_CHARS[4])
        suffix == <<"|", " ">> \o prev_button
                  \o (IF status = "Playing" THEN <<" ">> \o pause_button ELSE <<" ">> \o play_button)
                  \o <<" ">> \o next_button
        looped == prefix_after_loop(self.display_prefix, player_name)
    IN  [self EXCEPT !.status_paused = (status # "Playing"),
                     !.display_suffix = suffix,
                     !.display_prefix =
                         IF is_empty(looped)
                         THEN DISPLAY_PLAYER_PREFIX[Len(DISPLAY_PLAYER_PREFIX)][2]
                         ELSE looped]

\* lines 137-145: the configured fields, a placeholder for an absent one, joined
metadata_string_of(metadata) ==
    LET entry(field) == IF field \in DOMAIN metadata THEN metadata[field]
                        ELSE <<"N", "o", " ">> \o split_last(field, ":")
    IN  entry(METADATA_FIELDS[1]) \o separator_string \o entry(METADATA_FIELDS[2])

\* lines 149: the marquee text
marquee_of(metadata_string) == separator_string \o metadata_string \o <<" ", "|">>

\* scroll(): [self, panicked].  &s[1..] and &s[0..1] panic unless byte 1 is a
\* character boundary, that is unless the first character is one byte long.
scroll(self) ==
    IF ~self.status_paused
    THEN IF width(self.display_text) > MESSAGE_DISPLAY_LEN
         THEN IF ByteLen(Head(self.display_text)) = 1
              THEN [self |-> [self EXCEPT !.display_text =
                                  Tail(self.display_text) \o <<Head(self.display_text)>>],
                    panicked |-> FALSE]
              ELSE [self |-> self, panicked |-> TRUE]
         ELSE IF width(self.display_text) < MESSAGE_DISPLAY_LEN
         THEN [self |-> [self EXCEPT !.display_text =
                             @ \o repeat_space(MESSAGE_DISPLAY_LEN - width(self.display_text))],
               panicked |-> FALSE]
         ELSE [self |-> self, panicked |-> FALSE]
    ELSE [self |-> self, panicked |-> FALSE]

\* lines 161: format!("{} %{{T{}}}{}%{{T-}}{}", prefix, FONT_INDEX, display_text, suffix)
line_of(self) ==
    self.display_prefix \o <<" ", "%", "{", "T">> \o format_u32(FONT_INDEX) \o <<"}">>
        \o self.display_text \o <<"%", "{", "T", "-", "}">> \o self.display_suffix

\* lines 157-166: scroll and print.  [self, ret, out]
emit(self, out) ==
    IF HIDE_OUTPUT /\ is_empty(self.players)
    THEN [self |-> self, ret |-> "Ok", out |-> <<"\n">>]
    ELSE LET s == scroll(self)
         IN  IF s.panicked THEN [self |-> s.self, ret |-> "panicked", out |-> out]
             ELSE [self |-> s.self, ret |-> "Ok", out |-> line_of(s.self)]

\* lines 126-130: the branch of an empty player list
no_player_branch(self) ==
    update_prefix_suffix(
        [self EXCEPT !.display_prefix = <<>>, !.display_suffix = <<"N", "o", " ", "p", "l", "a", "y", "e", "r", " ", "a", "v", "a", "i", "l", "a", "b", "l", "e">>],
        <<>>, "")

\* lines 146-154: the two branches on the width of the joined metadata
format_branch(self, player_name, status, metadata_string) ==
    IF visual_length(metadata_string) > MESSAGE_DISPLAY_LEN
    THEN [update_prefix_suffix(self, player_name, status) EXCEPT
              !.display_suffix = make_visual_length(marquee_of(metadata_string), MESSAGE_DISPLAY_LEN)]
    ELSE update_prefix_suffix([self EXCEPT !.display_suffix = <<>>], player_name, status)

\* Result<T, Box<dyn Error>> of a bus call
Ok(v) == [ok |-> TRUE, v |-> v]
Failed(none) == [ok |-> FALSE, v |-> none]

\* a mutant of update_message: the display is formatted from the status before
\* the metadata is fetched, so a failing get_metadata returns after the update
update_message_format_first(self, status, metadata, out) ==
    IF is_empty(self.players)
    THEN emit(no_player_branch(self), out)
    ELSE LET player_name == self.players[self.current_player + 1]
         IN  IF ~status.ok THEN [self |-> self, ret |-> "err_get_status", out |-> out]
             ELSE IF ~metadata.ok
             THEN [self |-> update_prefix_suffix(self, player_name, status.v),
                   ret |-> "err_get_metadata", out |-> out]
             ELSE emit(format_branch(self, player_name, status.v,
                                     metadata_string_of(metadata.v)), out)

\* update_message, with get_status and get_metadata returning status and
\* metadata.  [self, ret, out]: the fields, how it returned, what stdout holds
update_message(self, status, metadata, out) ==
    IF is_empty(self.players)
    THEN emit(no_player_branch(self), out)
    ELSE LET player_name == self.players[self.current_player + 1]
         IN  IF ~status.ok THEN [self |-> self, ret |-> "err_get_status", out |-> out]
             ELSE IF ~metadata.ok THEN [self |-> self, ret |-> "err_get_metadata", out |-> out]
             ELSE emit(format_branch(self, player_name, status.v,
                                     metadata_string_of(metadata.v)), out)

-----------------------------------------------------------------------------
(* The environment: what the bus can answer *)

MaxNames == 2     \* the most names list_names returns
MaxLen == 4       \* the longest string handed to a direct call of a helper
MaxWidth == 5     \* the largest target width handed to a direct call
MaxHead == 2      \* the most characters that vary at the front of a buffer handed to scroll

NAME_SPOTIFY == MPRIS_NAMESPACE \o <<"s", "p", "o", "t", "i", "f", "y">>
NAME_FIREFOX == MPRIS_NAMESPACE \o <<"f", "i", "r", "e", "f", "o", "x", ".", "i", "n", "s", "t", "a", "n", "c", "e", "1", "2", "3">>
NAME_BOTH == MPRIS_NAMESPACE \o <<"F", "i", "r", "e", "f", "o", "x", "-", "S", "p", "o", "t", "i", "f", "y">>
NAME_VLC == MPRIS_NAMESPACE \o <<"v", "l", "c">>
NAME_DBUS == <<"o", "r", "g", ".", "f", "r", "e", "e", "d", "e", "s", "k", "t", "o", "p", ".", "D", "B", "u", "s">>

BusNames == {NAME_SPOTIFY, NAME_FIREFOX, NAME_BOTH, NAME_VLC, NAME_DBUS}

\* the replies of list_names: the bus names are unique
NameLists ==
    {names \in UNION {[1..n -> BusNames] : n \in 0..MaxNames} :
        \A i, j \in DOMAIN names : i # j => names[i] # names[j]}

Statuses == {"Playing", "Paused", "Stopped", "playing"}

TITLE_SHORT == <<"S", "o", "n", "g">>
TITLE_LONG == <<"B", "o", "h", "e", "m", "i", "a", "n", " ", "R", "h", "a", "p", "s", "o", "d", "y">>
TITLE_WIDE == <<"S", "y", "m", "p", "h", "o", "n", "y", " ", "N", "o", ".", " ", "9", ":", " ">> \o <<CJK_KAN, CJK_KI>>
ARTIST_SHORT == <<"B", "a", "n", "d">>
ARTIST_ACCENT == <<E_ACUTE>> \o <<"t", "o", "i", "l", "e">>

MetaOf(fields, title, artist) ==
    [k \in fields |-> IF k = XESAM_TITLE THEN title ELSE artist]

\* the replies of the Metadata property
Metadatas ==
    { MetaOf({}, <<>>, <<>>),
      MetaOf({XESAM_TITLE}, TITLE_SHORT, <<>>),
      MetaOf({XESAM_TITLE, XESAM_ARTIST}, TITLE_SHORT, ARTIST_SHORT),
      MetaOf({XESAM_TITLE, XESAM_ARTIST}, TITLE_LONG, ARTIST_SHORT),
      MetaOf({XESAM_TITLE, XESAM_ARTIST}, TITLE_LONG, ARTIST_ACCENT),
      MetaOf({XESAM_TITLE}, TITLE_WIDE, <<>>) }

\* what get_status and get_metadata return in one update_message (lines 134-135):
\* get_metadata is not called once get_status has failed
Fetches ==
    {<<Failed(""), Failed(MetaOf({}, <<>>, <<>>))>>}
    \cup {<<Ok(s), Failed(MetaOf({}, <<>>, <<>>))>> : s \in Statuses}
    \cup {<<Ok(s), Ok(m)>> : s \in Statuses, m \in Metadatas}

\* the strings of the direct calls
CallChars == {"a", CJK_KAN, COMBINING}
CallStrings == UNION {[1..n -> CallChars] : n \in 0..MaxLen}

NoCall == [op |-> "none"]

-----------------------------------------------------------------------------
(* The poll loop *)

\* main: new() succeeded (get_players, the literal, update_players), run() is entered
Init ==
    /\ \E first, names \in NameLists :
          LET made == [players |-> get_players(first), current_player |-> 0,
                       display_prefix |-> <<>>, display_suffix |-> <<>>,
                       status_paused |-> FALSE, display_text |-> <<>>]
              self == update_players(made, names)
          IN  /\ players = self.players
              /\ current_player = self.current_player
              /\ display_prefix = self.display_prefix
              /\ display_suffix = self.display_suffix
              /\ status_paused = self.status_paused
              /\ display_text = self.display_text
    /\ pc = "update_players"
    /\ fetched = <<>>
    /\ stdout = <<>>
    /\ call = NoCall

SetSelf(self) ==
    /\ players' = self.players
    /\ current_player' = self.current_player
    /\ display_prefix' = self.display_prefix
    /\ display_suffix' = self.display_suffix
    /\ status_paused' = self.status_paused
    /\ display_text' = self.display_text

\* run, line 214: self.update_players()? with list_names answering
UpdatePlayers ==
    /\ pc = "update_players"
    /\ \E names \in NameLists : \E self \in {update_players(Self, names)} : SetSelf(self)
    /\ pc' = "update_message"
    /\ UNCHANGED <<fetched, stdout, call>>

\* run, line 214: list_names failed and ? returns the error out of run and main
UpdatePlayersFails ==
    /\ pc = "update_players"
    /\ pc' = "err_list_names"
    /\ UNCHANGED <<players, current_player, display_prefix, display_suffix,
                   status_paused, display_text, fetched, stdout, call>>

\* run, line 215: self.update_message()?; Ok loops, an error leaves run and main
UpdateMessage ==
    /\ pc = "update_message"
    /\ \E fetch \in Fetches :
          \E r \in {update_message(Self, fetch[1], fetch[2], stdout)} :
              /\ SetSelf(r.self)
              /\ pc' = IF r.ret = "Ok" THEN "update_players" ELSE r.ret
              /\ stdout' = r.out
              /\ fetched' = IF r.ret # "Ok" THEN fetched
                            ELSE IF is_empty(players) THEN <<>>
                            ELSE <<[player_name |-> players[current_player + 1],
                                    status |-> fetch[1].v, metadata |-> fetch[2].v]>>
    /\ UNCHANGED call

Next == UpdatePlayers \/ UpdatePlayersFails \/ UpdateMessage

Spec == Init /\ [][Next]_vars

-----------------------------------------------------------------------------
(* Direct calls of make_visual_length on bounded arguments *)

InitCall ==
    /\ players = <<>> /\ current_player = 0
    /\ display_prefix = <<>> /\ display_suffix = <<>>
    /\ status_paused = FALSE /\ display_text = <<>>
    /\ pc = "call" /\ fetched = <<>> /\ stdout = <<>>
    /\ \E text \in CallStrings, n \in 0..MaxWidth :
          call = [op |-> "make_visual_length", text |-> text, len |-> n,
                  done |-> FALSE, ret |-> <<>>, redone |-> FALSE, ret2 |-> <<>>]

CallMakeVisualLength ==
    /\ call.op = "make_visual_length" /\ ~call.done
    /\ call' = [call EXCEPT !.done = TRUE, !.ret = make_visual_length(call.text, call.len)]
    /\ UNCHANGED <<players, current_player, display_prefix, display_suffix,
                   status_paused, display_text, pc, fetched, stdout>>

\* make_visual_length called on its own result, with the same target width
CallMakeVisualLengthAgain ==
    /\ call.op = "make_visual_length" /\ call.done /\ ~call.redone
    /\ call' = [call EXCEPT !.redone = TRUE, !.ret2 = make_visual_length(call.ret, call.len)]
    /\ UNCHANGED <<players, current_player, display_prefix, display_suffix,
                   status_paused, display_text, pc, fetched, stdout>>

NextCall == CallMakeVisualLength \/ CallMakeVisualLengthAgain

SpecCall == InitCall /\ [][NextCall]_vars

-----------------------------------------------------------------------------
(* Direct calls of scroll on bounded buffers, one call after the other *)

ScrollChars == {"x", E_ACUTE, CJK_KAN}
SCROLL_TAIL == <<"0", "1", "2", "3", "4", "5", "6", "7", "8", "9", "a", "b", "c", "d", "e", "f", "g", "h", "i", "j">>

\* buffers narrower than, as wide as and wider than the display
ScrollBuffers ==
    {head \o tail : head \in UNION {[1..n -> ScrollChars] : n \in 0..MaxHead},
                    tail \in {<<>>, SCROLL_TAIL}}

InitScroll ==
    /\ players = <<>> /\ current_player = 0
    /\ display_prefix = <<>> /\ display_suffix = <<>>
    /\ status_paused \in BOOLEAN
    /\ display_text \in ScrollBuffers
    /\ pc = "call" /\ fetched = <<>> /\ stdout = <<>>
    /\ call = [op |-> "scroll", text0 |-> display_text, ticks |-> 0, panicked |-> FALSE]

\* one call of scroll; a panic ends the calls; at most as many calls as the buffer
\* had characters
CallScroll ==
    /\ call.op = "scroll" /\ ~call.panicked /\ call.ticks < Len(call.text0)
    /\ \E r \in {scroll(Self)} :
          /\ SetSelf(r.self)
          /\ call' = [call EXCEPT !.ticks = @ + 1, !.panicked = r.panicked]
    /\ UNCHANGED <<pc, fetched, stdout>>

NextScroll == CallScroll

SpecScroll == InitScroll /\ [][NextScroll]_vars

-----------------------------------------------------------------------------
(* Vocabulary of the properties *)

\* the latest update_message returned Ok and queried a player
AfterPlayerTick == pc = "update_players" /\ fetched # <<>>

\* the latest update_message returned Ok on an empty player list
AfterIdleTick == pc = "update_players" /\ stdout # <<>> /\ fetched = <<>>

\* this step is an update_message that queried a player and returned Ok
PlayerTickStep == pc = "update_message" /\ pc' = "update_players" /\ fetched' # <<>>

\* the joined metadata is wider than the display
Overflows(metadata) == visual_length(metadata_string_of(metadata)) > MESSAGE_DISPLAY_LEN

\* this tick shows the player and metadata of the tick before it
SameContentStep ==
    /\ fetched # <<>>
    /\ fetched[1].player_name = fetched'[1].player_name
    /\ fetched[1].metadata = fetched'[1].metadata

\* cyclic left rotation by one character
RotateLeft(s) == IF s = <<>> THEN s ELSE Tail(s) \o <<Head(s)>>

\* the first pair in list order whose pattern occurs in the lowered name; else the default icon
FirstMatchIcon(name) ==
    LET lowered == to_lowercase(name)
        first(i) == /\ contains(lowered, DISPLAY_PLAYER_PREFIX[i][1])
                    /\ \A j \in 1..(i - 1) : ~contains(lowered, DISPLAY_PLAYER_PREFIX[j][1])
    IN  IF \E i \in DOMAIN DISPLAY_PLAYER_PREFIX : first(i)
        THEN DISPLAY_PLAYER_PREFIX[CHOOSE i \in DOMAIN DISPLAY_PLAYER_PREFIX : first(i)][2]
        ELSE <<ICON_DEFAULT>>

-----------------------------------------------------------------------------
(* C1 *)

\* C1: a failing get_status or get_metadata never ends the poll loop: run is
\* never left through either error.
C1_FetchErrorNeverLeavesLoop == pc \notin {"err_get_status", "err_get_metadata"}

(* C2 *)

\* C2: a tick in which get_status or get_metadata fails, the player list being
\* non-empty, changes none of prefix, body, suffix and paused flag.
C2_FailedFetchKeepsDisplay ==
    [][(pc = "update_message" /\ pc' \in {"err_get_status", "err_get_metadata"})
         => UNCHANGED <<display_prefix, display_text, display_suffix, status_paused>>]_vars

\* C2: get_metadata failed in a tick that follows a successful tick with a player
C2_Witness ==
    /\ pc = "err_get_metadata"
    /\ players # <<>>
    /\ fetched # <<>>
    /\ display_prefix # <<>>

(* C3 *)

\* C3: in every reachable state the current-player index is 0 or a valid
\* index of the player sequence, and is below its length when it is non-empty.
C3_IndexInRange ==
    /\ current_player = 0 \/ current_player < Len(players)
    /\ players # <<>> => current_player < Len(players)

\* C3: a refresh emptied the list that the tick before it had a player in
C3_Witness == pc = "update_message" /\ players = <<>> /\ fetched # <<>>

(* C4 *)

\* C4: with joined metadata wider than the display, a tick that fetched Paused
\* leaves the scroll buffer as it was, and a tick that fetched Playing with the
\* content of the tick before it leaves the buffer rotated left by one character.
C4_PausedFreezesPlayingRotates ==
    [][(PlayerTickStep /\ Overflows(fetched'[1].metadata))
         => /\ fetched'[1].status = "Paused" => display_text' = display_text
            /\ (fetched'[1].status = "Playing" /\ SameContentStep)
                 => display_text' = RotateLeft(display_text)]_vars

(* C5 *)

\* the buffer a tick may leave when it loads the marquee text at offset zero:
\* the text, whole or clamped to the display, before or after that tick's scroll step
FreshMarquee(metadata) ==
    LET text == marquee_of(metadata_string_of(metadata))
        clamped == make_visual_length(text, MESSAGE_DISPLAY_LEN)
    IN  {text, RotateLeft(text), clamped, RotateLeft(clamped)}

\* C5: in the overflow case a tick with the content of the tick before it keeps
\* the rotation offset (the buffer is unchanged or advanced by that tick's one
\* rotation), and a tick with other content loads the new marquee text at offset zero.
C5_OffsetKeptOrReset ==
    [][(PlayerTickStep /\ Overflows(fetched'[1].metadata))
         => IF SameContentStep
            THEN display_text' \in {display_text, RotateLeft(display_text)}
            ELSE display_text' \in FreshMarquee(fetched'[1].metadata)]_vars

(* C6 *)

\* C6: when the joined metadata fits the display, the body is the joined string
\* (as it is, or padded to the display width), and a tick with the input of the
\* tick before it leaves the body as it was.
C6_StaticBodyIsJoined ==
    [][(PlayerTickStep /\ ~Overflows(fetched'[1].metadata))
         => LET joined == metadata_string_of(fetched'[1].metadata)
            IN  /\ display_text' \in {joined, make_visual_length(joined, MESSAGE_DISPLAY_LEN)}
                /\ (SameContentStep /\ fetched[1].status = fetched'[1].status)
                     => display_text' = display_text]_vars

(* C7 *)

\* C7: after every successful tick with a player the prefix is the icon of the
\* first matching pair of the list, the default icon when none matches.
C7_PrefixIsFirstMatch ==
    AfterPlayerTick => display_prefix = FirstMatchIcon(fetched[1].player_name)

(* C8 *)

\* C8: after every successful tick with a player the suffix holds the previous
\* and next segments and one of play and pause, each naming the player: pause
\* exactly when the status is Playing.
C8_SuffixHasControls ==
    AfterPlayerTick =>
        LET option == <<"-", "p", " ">> \o fetched[1].player_name
            has(command, icon) == contains(display_suffix, button(option, command, icon))
            playing == fetched[1].status = "Playing"
        IN  /\ has(<<"p", "r", "e", "v", "i", "o", "u", "s">>, ICON_PREVIOUS)
            /\ has(<<"n", "e", "x", "t">>, ICON_NEXT)
            /\ has(<<"p", "a", "u", "s", "e">>, ICON_PAUSE) <=> playing
            /\ has(<<"p", "l", "a", "y">>, ICON_PLAY) <=> ~playing

(* C9 *)

\* C9: after a tick on an empty player list the prefix is empty, the suffix
\* holds "No player available" and the body is empty.
C9_NoPlayerDisplay ==
    AfterIdleTick =>
        /\ display_prefix = <<>>
        /\ contains(display_suffix, <<"N", "o", " ", "p", "l", "a", "y", "e", "r", " ", "a", "v", "a", "i", "l", "a", "b", "l", "e">>)
        /\ display_text = <<>>

(* C10 *)

\* C10: for a string of characters of width 1 or 2 and a target width n,
\* make_visual_length returns a string of visual width exactly n.
C10_ClampWidthExact ==
    (/\ call.op = "make_visual_length"
     /\ call.done
     /\ \A i \in DOMAIN call.text : CharWidth(call.text[i]) \in {1, 2})
        => width(call.ret) = call.len

\* C10: a wide character straddles column n: "a" and a wide character, clamped to 2
C10_Witness ==
    /\ call.op = "make_visual_length"
    /\ call.done
    /\ call.text = <<"a", CJK_KAN>>
    /\ call.len = 2
    /\ call.ret = <<"a", " ">>

(* C11 *)

\* C11: make_visual_length is idempotent for a fixed target width: called on
\* its own result with the same width, it returns that result.
C11_ClampIdempotent ==
    (call.op = "make_visual_length" /\ call.redone) => call.ret2 = call.ret

\* C11: the second call on a result that the first call truncated and padded,
\* and that holds a zero-width character
C11_Witness ==
    /\ call.op = "make_visual_length"
    /\ call.redone
    /\ call.text = <<"a", COMBINING, "a", CJK_KAN>>
    /\ call.len = 4
    /\ call.ret = <<"a", COMBINING, "a", " ">>
    /\ call.ret2 = call.ret

(* C12 *)

\* the k-th cyclic left rotation of a string
RotateBy(s, k) == [i \in 1..Len(s) |-> s[((i - 1 + k) % Len(s)) + 1]]

\* C12: from an unpaused buffer of k characters wider than the display, the
\* buffer after i ticks is the i-th cyclic rotation of the original text, so
\* the k-th tick returns the original buffer.
C12_RotationsCloseAfterK ==
    (call.op = "scroll" /\ ~status_paused /\ width(call.text0) > MESSAGE_DISPLAY_LEN)
        => /\ ~call.panicked
           /\ display_text = RotateBy(call.text0, call.ticks)
           /\ call.ticks = Len(call.text0) => display_text = call.text0

(* C15 *)

\* C15: an unpaused scroll on a buffer wider than the display moves the first
\* character to the end, whatever its byte length and width: the call returns
\* and leaves the same characters, the first one last.
C15_ScrollMovesFirstCharacter ==
    [][(/\ call.op = "scroll"
        /\ call'.ticks = call.ticks + 1
        /\ ~status_paused
        /\ width(display_text) > MESSAGE_DISPLAY_LEN)
         => /\ ~call'.panicked
            /\ Len(display_text') = Len(display_text)
            /\ display_text' = RotateLeft(display_text)]_vars

(* C13 *)

\* C13: after a successful tick with a player, the body holds "No <field-name>"
\* for every configured field that the fetched metadata lacks.
C13_AbsentFieldPlaceholder ==
    AfterPlayerTick =>
        \A i \in DOMAIN METADATA_FIELDS :
            METADATA_FIELDS[i] \notin DOMAIN fetched[1].metadata
                => contains(display_text, <<"N", "o", " ">> \o split_last(METADATA_FIELDS[i], ":"))

(* C14 *)

\* C14: a completed tick has emitted one line, ended by a line feed: the
\* prefix, the body as the scroll step of that tick left it, and the suffix, in
\* that order, with the font directives around the body.
C14_OneLinePrefixBodySuffix ==
    (pc = "update_players" /\ stdout # <<>>)
        => stdout = display_prefix \o <<" ", "%", "{", "T", "1", "}">> \o display_text \o <<"%", "{", "T", "-", "}">>
                        \o display_suffix \o <<"\n">>

(* C16 *)

\* what the loop of make_visual_length accepted of the call's text
Accepted == accumulate(call.text, call.len, 0, <<>>).altered_text

\* the call is done, and its loop stopped one column short of the target, after
\* at least one character, at a character of width 2
StraddlingCall ==
    /\ call.op = "make_visual_length"
    /\ call.done
    /\ Accepted # <<>>
    /\ accumulate(call.text, call.len, 0, <<>>).visual_length = call.len - 1
    /\ Len(Accepted) < Len(call.text)
    /\ CharWidth(call.text[Len(Accepted) + 1]) = 2

\* C16, as claimed: when the loop stops one column short at a width-2
\* character, the last accepted character is replaced by a single space.
C16_LastAcceptedReplaced ==
    StraddlingCall => call.ret = Append(pop(Accepted), " ")

\* C16, amended: when the loop stops one column short at a width-2 character,
\* every accepted character is kept and a single space is appended.
C16_AcceptedKeptSpaceAppended ==
    StraddlingCall => call.ret = Append(Accepted, " ")

\* C16: two accepted characters, then a wide one that would overshoot 3 by one
C16_Witness ==
    /\ StraddlingCall
    /\ call.text = <<"a", "a", CJK_KAN>>
    /\ call.len = 3
    /\ call.ret = <<"a", "a", " ">>

(* C17 *)

\* the display mode the fields are in: the width branch taken shows in the
\* suffix (the control segments start with "| ", the clamped marquee does not)
ModeOf ==
    IF players = <<>> THEN "Idle"
    ELSE IF starts_with(display_suffix, <<"|", " ">>) THEN "Static"
    ELSE IF status_paused THEN "Paused"
    ELSE "Scrolling"

\* the display mode as a function of one tick's inputs
ModeFromInputs(no_players, status, overflows) ==
    IF no_players THEN "Idle"
    ELSE IF ~overflows THEN "Static"
    ELSE IF status = "Playing" THEN "Scrolling"
    ELSE "Paused"

\* C17: the display mode after a successful tick is a function of that tick's
\* inputs alone (empty player list, fetched status, joined metadata wider than
\* the display), whatever the ticks before it were.
C17_ModeFromTickInputs ==
    (pc = "update_players" /\ stdout # <<>>)
        => ModeOf = IF fetched = <<>> THEN ModeFromInputs(TRUE, "", FALSE)
                    ELSE ModeFromInputs(FALSE, fetched[1].status,
                                        Overflows(fetched[1].metadata))

\* C17: a Paused tick with overflowing metadata, after a history that held a Playing tick
C17_Witness ==
    /\ AfterPlayerTick
    /\ fetched[1].status = "Paused"
    /\ Overflows(fetched[1].metadata)
    /\ display_text # <<>>
    /\ ModeOf = "Paused"

(* C18 *)

\* C18: the current-player index is 0 in every reachable state, and the player
\* a tick queried is the first of the player sequence.
C18_IndexAlwaysZero ==
    /\ current_player = 0
    /\ AfterPlayerTick => fetched[1].player_name = players[1]

\* C18: a tick queried the first of two players
C18_Witness ==
    /\ AfterPlayerTick
    /\ Len(players) = 2
    /\ fetched[1].player_name = players[1]

(* C19 *)

\* C19: after a successful tick the paused flag is false exactly when the tick
\* fetched "Playing" (true for any other status and for an empty player list),
\* and a tick that leaves the flag true leaves the scroll buffer as it was.
C19_PausedUnlessPlaying ==
    [][(pc = "update_message" /\ pc' = "update_players")
         => /\ status_paused' <=> (fetched' = <<>> \/ fetched'[1].status # "Playing")
            /\ status_paused' => display_text' = display_text]_vars

\* C19: a Stopped tick left the flag true and the buffer an earlier Playing tick padded
C19_Witness ==
    /\ AfterPlayerTick
    /\ fetched[1].status = "Stopped"
    /\ status_paused
    /\ display_text = repeat_space(MESSAGE_DISPLAY_LEN)

====
